---- MODULE Spec2Model ----
(***************************************************************************)
(* Model of index.js: the createchannels slash-command handler, the        *)
(* OpenRouter completion client (callOpenRouter) and sanitizeName.         *)
(*                                                                         *)
(* Strings the code inspects character by character (channel names and    *)
(* parent references) are sequences of one-character strings.  Strings     *)
(* the code only compares with === (types, topics) are TLA+ strings.       *)
(* A falsy JSON value (absent, null, "") is the empty sequence or "".      *)
(***************************************************************************)
EXTENDS Integers, Sequences, FiniteSets, TLC

\* ------------------------------------------------------------ bounds
\* Largest number of channel objects in one model answer.
MaxBatch == 3
\* Longest string typed character by character for sanitizeName.
MaxLen == 3

\* ------------------------------------------------------------ program constants
\* A loop bound that allows one attempt too many.
MaxAttemptsOneMore == 3 + 1

\* index.js:53  for (let i = 0; i < 3; i++)
MaxAttempts == 3
\* index.js:84  .slice(0, 100)
MaxNameLen == 100

\* ------------------------------------------------------------ characters
LowerLetters ==
  <<"a","b","c","d","e","f","g","h","i","j","k","l","m",
    "n","o","p","q","r","s","t","u","v","w","x","y","z">>
UpperLetters ==
  <<"A","B","C","D","E","F","G","H","I","J","K","L","M",
    "N","O","P","Q","R","S","T","U","V","W","X","Y","Z">>
Digits == <<"0","1","2","3","4","5","6","7","8","9">>

Range(s) == {s[k] : k \in 1..Len(s)}

\* The character class [a-z0-9-] of the regular expression in sanitizeName.
LegalChars == Range(LowerLetters) \cup Range(Digits) \cup {"-"}

\* String.prototype.toLowerCase, one character.
lowerChar(c) ==
  IF c \in Range(UpperLetters)
  THEN LowerLetters[CHOOSE k \in 1..Len(UpperLetters) : UpperLetters[k] = c]
  ELSE c

toLowerCase(s) == [k \in 1..Len(s) |-> lowerChar(s[k])]

\* .replace(/[^a-z0-9-]/g, '-')
replaceIllegal(s) == [k \in 1..Len(s) |-> IF s[k] \in LegalChars THEN s[k] ELSE "-"]

\* A faulty collapse that leaves runs of hyphens alone.
collapseHyphensKeepRuns(s) == s

\* .replace(/-+/g, '-') : every maximal run of hyphens becomes one hyphen,
\* that is, a hyphen that follows a hyphen is dropped.
collapseHyphens(s) ==
  LET first(k) == ~(s[k] = "-" /\ k > 1 /\ s[IF k > 1 THEN k - 1 ELSE k] = "-")
      kept == SelectSeq([k \in 1..Len(s) |-> k], first)
  IN [j \in 1..Len(kept) |-> s[kept[j]]]

\* .slice(0, 100)
slice(s) == SubSeq(s, 1, IF Len(s) < MaxNameLen THEN Len(s) ELSE MaxNameLen)

\* function sanitizeName(name)
sanitizeName(name) == slice(collapseHyphens(replaceIllegal(toLowerCase(name))))

\* Decimal rendering of a natural number, as a template literal does it.
RECURSIVE toDecimal(_)
toDecimal(n) ==
  IF n < 10 THEN <<Digits[n + 1]>>
  ELSE toDecimal(n \div 10) \o <<Digits[(n % 10) + 1]>>

\* `channel-${idx + 1}` with idx the 0-based position; pos is idx + 1.
fallbackName(pos) == <<"c","h","a","n","n","e","l","-">> \o toDecimal(pos)

\* ------------------------------------------------------------ JSON values
\* A falsy string-valued field: absent, null or "".
Falsy == <<>>

\* topic: c.topic || null
NullTopic == "null"

\* A field the options object of a create call does not have.
NoTopic == "undefined"

\* parent: undefined in the options of a create call.
Undefined == 0

\* What categoryMap[key] yields for a key that is not an own property of the
\* object literal {} but is a member of Object.prototype.
Inherited == -1

\* Names of members every object literal inherits.
ObjectPrototypeKeys == {<<"c","o","n","s","t","r","u","c","t","o","r">>}

TeamAlpha == <<"T","e","a","m"," ","A","l","p","h","a">>
TeamAlphaKey == <<"t","e","a","m","-","a","l","p","h","a">>
LongName == [k \in 1..(MaxNameLen - 1) |-> "x"] \o <<" ", " ", "y">>

RawSpec(name, isString, type, topic, parent) ==
  [name |-> name, nameIsString |-> isString, type |-> type, topic |-> topic, parent |-> parent]

\* The channel objects a model answer is made of.
RawSpecs ==
  { RawSpec(TeamAlpha, TRUE, "category", "", Falsy),
    RawSpec(<<"d","e","v">>, TRUE, "text", "rules", TeamAlpha),
    RawSpec(<<"L","o","b","b","y">>, TRUE, "voice", "rules", TeamAlphaKey),
    RawSpec(Falsy, TRUE, "", "", Falsy),
    RawSpec(<<"!","!">>, TRUE, "Category", "", <<"c","o","n","s","t","r","u","c","t","o","r">>) }

\* A channel object whose name is longer than the 100 characters kept.
LongNamed == RawSpec(LongName, TRUE, "voice", "", <<"o","p","s">>)

RECURSIVE SeqsUpTo(_, _)
SeqsUpTo(S, n) ==
  IF n = 0 THEN {<<>>}
  ELSE LET shorter == SeqsUpTo(S, n - 1)
       IN shorter \cup {Append(b, x) : b \in {c \in shorter : Len(c) = n - 1}, x \in S}

Batches == SeqsUpTo(RawSpecs, MaxBatch)

\* ------------------------------------------------------------ the text of a model answer
\* A model answer is a sequence of tokens: a stretch of prose without
\* brackets, an opening bracket, a closing bracket, or one JSON object (the
\* commas between the objects of an array are left implicit).
Prose == [tok |-> "prose"]
LB == [tok |-> "["]
RB == [tok |-> "]"]
Obj(spec) == [tok |-> "object", spec |-> spec]

\* res.data.choices[0]?.message?.content || '... No response'
Sentinel == <<[tok |-> "no response"]>>

ArrayText(batch) == <<LB>> \o [k \in 1..Len(batch) |-> Obj(batch[k])] \o <<RB>>

AnyObj == Obj(RawSpec(Falsy, TRUE, "", "", Falsy))

\* A channel object whose name is the number 7 instead of a string.
NumberNamed == Obj(RawSpec(<<"7">>, FALSE, "text", "", Falsy))

\* Two categories whose names differ but sanitize to the same key, and a
\* channel that refers to that key.
SameKeyBatch ==
  << RawSpec(TeamAlpha, TRUE, "category", "", Falsy),
     RawSpec(TeamAlphaKey, TRUE, "category", "", Falsy),
     RawSpec(<<"L","o","b","b","y">>, TRUE, "voice", "rules", TeamAlphaKey) >>

\* Answers that are not one clean array of well-typed short-named objects.
OddOutputs ==
  { <<LB, Obj(LongNamed), RB>>,
    ArrayText(SameKeyBatch),
    <<LB, Obj(RawSpec(TeamAlpha, TRUE, "category", "", Falsy)), Obj(LongNamed), RB>>,
    <<Prose>>,
    <<AnyObj>>,
    <<LB, NumberNamed, RB>>,
    <<LB, AnyObj, NumberNamed, RB>>,
    <<RB, Prose, LB>>,
    <<LB, Prose, RB>>,
    <<LB, AnyObj, RB, Prose, RB>>,
    <<LB, AnyObj, RB, Prose, LB, AnyObj, RB>> }

ModelOutputs ==
  {ArrayText(b) : b \in Batches}
    \cup {<<Prose>> \o ArrayText(b) \o <<Prose>> : b \in SeqsUpTo(RawSpecs, MaxBatch - 1)}
    \cup OddOutputs

\* The answers given while two interactions are in flight: the same
\* category followed by up to MaxBatch - 2 channels that refer to its key.
TwoOutputs ==
  { ArrayText(<<RawSpec(TeamAlpha, TRUE, "category", "", Falsy)>> \o kids) :
      kids \in SeqsUpTo({RawSpec(<<"L","o","b","b","y">>, TRUE, "voice", "rules", TeamAlphaKey)},
                        MaxBatch - 2) }

SetMin(S) == CHOOSE x \in S : \A y \in S : x <= y
SetMax(S) == CHOOSE x \in S : \A y \in S : y <= x

\* modelOutput.match(/\[.*\]/s): from the first "[" that has a "]" after it
\* to the last "]" of the text; <<>> stands for null (a match is never empty).
matchBrackets(text) ==
  LET closes == {k \in 1..Len(text) : text[k].tok = "]"}
      opens == {k \in 1..Len(text) : text[k].tok = "[" /\ \E b \in closes : k < b}
  IN IF opens = {} THEN <<>> ELSE SubSeq(text, SetMin(opens), SetMax(closes))

\* A faulty extraction that parses the whole answer and ignores the match.
jsonTextOfWhole(text) == text

\* const jsonText = jsonMatch ? jsonMatch[0] : modelOutput
jsonTextOf(text) == IF matchBrackets(text) = <<>> THEN text ELSE matchBrackets(text)

\* A lenient parser that wraps a single object into an array of one.
JSONparseWrapObject(text) ==
  IF /\ Len(text) >= 2
     /\ text[1].tok = "["
     /\ text[Len(text)].tok = "]"
     /\ \A k \in 2..(Len(text) - 1) : text[k].tok = "object"
  THEN [kind |-> "array", items |-> [k \in 1..(Len(text) - 2) |-> text[k + 1].spec]]
  ELSE IF Len(text) = 1 /\ text[1].tok = "object"
  THEN [kind |-> "array", items |-> <<text[1].spec>>]
  ELSE [kind |-> "error", items |-> <<>>]

\* JSON.parse(jsonText): an array of objects, another JSON value, or a
\* SyntaxError.
JSONparse(text) ==
  IF /\ Len(text) >= 2
     /\ text[1].tok = "["
     /\ text[Len(text)].tok = "]"
     /\ \A k \in 2..(Len(text) - 1) : text[k].tok = "object"
  THEN [kind |-> "array", items |-> [k \in 1..(Len(text) - 2) |-> text[k + 1].spec]]
  ELSE IF Len(text) = 1 /\ text[1].tok = "object"
  THEN [kind |-> "value", items |-> <<>>]
  ELSE [kind |-> "error", items |-> <<>>]

\* ------------------------------------------------------------ planning
\* A coercion that lower-cases the raw type before comparing.
coerceTypeIgnoreCase(t) ==
  IF t \in {"voice", "Voice", "VOICE"} THEN "voice"
  ELSE IF t \in {"category", "Category", "CATEGORY"} THEN "category"
  ELSE "text"

\* c.type === 'voice' ? 'voice' : c.type === 'category' ? 'category' : 'text'
coerceType(t) ==
  IF t = "voice" THEN "voice" ELSE IF t = "category" THEN "category" ELSE "text"

\* c.name || `channel-${idx + 1}`
nameOrFallback(c, pos) == IF c.name = Falsy THEN fallbackName(pos) ELSE c.name

\* sanitizeName throws a TypeError on a truthy name that is not a string.
normalizeThrows(specs) ==
  \E k \in 1..Len(specs) : specs[k].name # Falsy /\ ~specs[k].nameIsString

\* channels.map((c, idx) => ({name, type, topic, parent}))
normalize(specs) ==
  [k \in 1..Len(specs) |->
     [name |-> sanitizeName(nameOrFallback(specs[k], k)),
      type |-> coerceType(specs[k].type),
      topic |-> IF specs[k].topic = "" THEN NullTopic ELSE specs[k].topic,
      parent |-> IF specs[k].parent = Falsy THEN Falsy ELSE specs[k].parent]]

\* c.type.toUpperCase()
typeToUpperCase(t) ==
  IF t = "voice" THEN "VOICE" ELSE IF t = "category" THEN "CATEGORY" ELSE "TEXT"

\* One line of the preview: `- ${TYPE}: ${name}${parent ? ` (parent: ${parent})` : ''}`
previewLine(c) == [type |-> typeToUpperCase(c.type), name |-> c.name, parent |-> c.parent]

\* A faulty preview that lists the channels but leaves the categories out.
PreviewReplyNoCategories(chs) ==
  LET plain(c) == c.type # "category"
      shown == SelectSeq(chs, plain)
  IN [kind |-> "preview", msg |-> "", lines |-> [k \in 1..Len(shown) |-> previewLine(shown[k])]]

PreviewReply(chs) ==
  [kind |-> "preview", msg |-> "", lines |-> [k \in 1..Len(chs) |-> previewLine(chs[k])]]

\* One line of the report: c.error ? warning line : success line
reportLine(r) ==
  IF "error" \in DOMAIN r
  THEN [mark |-> "warning", name |-> r.name, text |-> r.error]
  ELSE [mark |-> "ok", name |-> r.name, text |-> r.type]

ReportReply(results) ==
  [kind |-> "report", msg |-> "", lines |-> [k \in 1..Len(results) |-> reportLine(results[k])]]

\* interaction.editReply(`... Failed: ${err.message}`)
FailedReply(msg) == [kind |-> "failed", msg |-> msg, lines |-> <<>>]

NoReply == [kind |-> "none", msg |-> "", lines |-> <<>>]

Unreachable == "OpenRouter API unreachable after 3 attempts"
DirectoryError == "Missing Permissions"

\* ------------------------------------------------------------ execution helpers
\* A faulty lookup that falls back to some category of the map.
lookupOrAny(map, key) ==
  IF key \in DOMAIN map THEN map[key]
  ELSE IF DOMAIN map # {} THEN map[CHOOSE k \in DOMAIN map : TRUE]
  ELSE Undefined

\* categoryMap[key] on the object literal {}.
lookup(map, key) ==
  IF key \in DOMAIN map THEN map[key]
  ELSE IF key \in ObjectPrototypeKeys THEN Inherited
  ELSE Undefined

\* A map that keeps the first identifier stored under a key.
mapPutKeepFirst(map, key, id) ==
  [k \in (DOMAIN map) \cup {key} |-> IF k \in DOMAIN map THEN map[k] ELSE id]

\* categoryMap[ch.name] = created.id
mapPut(map, key, id) ==
  [k \in (DOMAIN map) \cup {key} |-> IF k = key THEN id ELSE map[k]]

\* { name: ch.name, type: ChannelType.GuildCategory }
categoryCall(i, ch) ==
  [inv |-> i, name |-> ch.name, type |-> "GuildCategory", topic |-> NoTopic,
   parent |-> Undefined, status |-> "pending", id |-> 0]

\* A faulty first loop that stops after the first category.
nextCategoryFirstOnly(chs, from) ==
  LET rest == {k \in 1..Len(chs) : chs[k].type = "category"}
  IN IF from > 0 \/ rest = {} THEN 0 ELSE SetMin(rest)

\* The position of the next element of chs after from that the first loop
\* (categories) visits, 0 when there is none.
nextCategory(chs, from) ==
  LET rest == {k \in (from + 1)..Len(chs) : chs[k].type = "category"}
  IN IF rest = {} THEN 0 ELSE SetMin(rest)

\* The same for the second loop, which skips the categories.
nextChannel(chs, from) ==
  LET rest == {k \in (from + 1)..Len(chs) : chs[k].type # "category"}
  IN IF rest = {} THEN 0 ELSE SetMin(rest)

\* ------------------------------------------------------------ state
Invocations == {1, 2}

VARIABLES
  active,           \* the interactions delivered in this run
  pc,               \* where each invocation of the handler is suspended
  dryrun,           \* const dryrun
  attempt,          \* the loop counter i of callOpenRouter
  requests,         \* number of axios.post calls issued by the invocation
  failures,         \* number of these calls the catch block of callOpenRouter handled
  lastResponse,     \* how the latest of these calls ended
  modelOutput,      \* const modelOutput
  channels,         \* let channels, after normalization
  idx,              \* position in channels of the element whose create call is pending
  categoryMap,      \* const categoryMap
  createdChannels,  \* const createdChannels
  reply,            \* what interaction.editReply was called with
  calls,            \* every guild.channels.create call, in issue order
  nextId,           \* the next identifier the directory hands out
  sanIn, sanOut, sanDone

invVars == <<active, pc, dryrun, attempt, requests, failures, lastResponse,
             modelOutput, channels, idx,
             categoryMap, createdChannels, reply, calls, nextId>>
sanVars == <<sanIn, sanOut, sanDone>>
vars == <<invVars, sanVars>>

Upd(f, i, v) == [f EXCEPT ![i] = v]

InvInit ==
  /\ pc = [i \in Invocations |-> "idle"]
  /\ dryrun = [i \in Invocations |-> FALSE]
  /\ attempt = [i \in Invocations |-> 0]
  /\ requests = [i \in Invocations |-> 0]
  /\ failures = [i \in Invocations |-> 0]
  /\ lastResponse = [i \in Invocations |-> "none"]
  /\ modelOutput = [i \in Invocations |-> <<>>]
  /\ channels = [i \in Invocations |-> <<>>]
  /\ idx = [i \in Invocations |-> 0]
  /\ categoryMap = [i \in Invocations |-> <<>>]
  /\ createdChannels = [i \in Invocations |-> <<>>]
  /\ reply = [i \in Invocations |-> NoReply]
  /\ calls = <<>>
  /\ nextId = 1

\* ------------------------------------------------------------ the sanitizeName harness
\* Characters typed into the harness: a lower-case letter, an upper-case
\* letter, a digit, the hyphen and two characters outside the legal class.
SanChars == {"a", "B", "7", "-", " ", "!"}

\* Characters used to pad an input up to the truncation boundary.
PadChars == {"a", "-", "!"}

SanIdle == sanIn = <<>> /\ sanOut = <<>> /\ sanDone = FALSE

\* One more character of input.
SanType(c) ==
  /\ ~sanDone
  /\ Len(sanIn) < MaxLen
  /\ sanIn' = Append(sanIn, c)
  /\ UNCHANGED <<sanOut, sanDone, invVars>>

\* Put MaxNameLen - 1 copies of c in front of the input, so that the typed
\* characters straddle the truncation boundary.
SanPad(c) ==
  /\ ~sanDone
  /\ Len(sanIn) <= MaxLen
  /\ sanIn' = [k \in 1..(MaxNameLen - 1) |-> c] \o sanIn
  /\ UNCHANGED <<sanOut, sanDone, invVars>>

\* The call sanitizeName(sanIn).
SanApply ==
  /\ ~sanDone
  /\ sanOut' = sanitizeName(sanIn)
  /\ sanDone' = TRUE
  /\ UNCHANGED <<sanIn, invVars>>

SanNext ==
  \/ \E c \in SanChars : SanType(c)
  \/ \E c \in PadChars : SanPad(c)
  \/ SanApply

SanInit == SanIdle /\ InvInit /\ active = {}

SpecSanitize == SanInit /\ [][SanNext]_vars

\* ------------------------------------------------------------ the createchannels handler
\* Options built from one lookup table that all invocations write to.
channelCallShared(i, ch, map) ==
  [inv |-> i, name |-> ch.name,
   type |-> IF ch.type = "voice" THEN "GuildVoice" ELSE "GuildText",
   topic |-> ch.topic,
   parent |-> IF ch.parent # Falsy
              THEN LET owners == {j \in DOMAIN categoryMap : ch.parent \in DOMAIN categoryMap[j]}
                   IN IF owners = {} THEN lookup(map, ch.parent)
                      ELSE SetMax({categoryMap[j][ch.parent] : j \in owners})
              ELSE Undefined,
   status |-> "pending", id |-> 0]

\* const options = { name, type, topic, parent }
channelCall(i, ch, map) ==
  [inv |-> i, name |-> ch.name,
   type |-> IF ch.type = "voice" THEN "GuildVoice" ELSE "GuildText",
   topic |-> ch.topic,
   parent |-> IF ch.parent # Falsy THEN lookup(map, ch.parent) ELSE Undefined,
   status |-> "pending", id |-> 0]

\* Responses of the completion endpoint to one axios.post:
\*   "error"      transport failure or non-2xx status: axios.post rejects;
\*   "nochoices"  2xx whose body has no choices array: res.data.choices[0]
\*                throws inside the try block;
\*   "nocontent"  2xx whose first choice is missing or has no text content;
\*   "content"    2xx with a text.
Responses == {"error", "nochoices", "nocontent", "content"}

\* A client that also treats a 2xx answer without text as a failed attempt.
FailedResponsesWithEmpty == {"error", "nochoices", "nocontent"}

\* The responses the catch block of callOpenRouter handles.
FailedResponses == {"error", "nochoices"}

\* interaction.options.getInteger('dryrun'): absent, or an integer.
DryrunOptions == {<<>>, <<0>>, <<1>>, <<2>>}

\* !!interaction.options.getInteger('dryrun')
toBoolean(opt) == opt # <<>> /\ opt[1] # 0

\* A handler without its catch block: the exception escapes, nothing is sent.
FailUncaught(i, msg) ==
  /\ pc' = Upd(pc, i, "crashed")
  /\ UNCHANGED reply

\* The catch block of the handler: editReply with the failure message.
Fail(i, msg) ==
  /\ reply' = Upd(reply, i, FailedReply(msg))
  /\ pc' = Upd(pc, i, "done")

\* The second loop from position from on: issue the create call of the next
\* non-category channel, or send the report when there is none left.
EnterPass2(i, chs, map, from, results, log) ==
  LET k == nextChannel(chs, from)
  IN /\ createdChannels' = Upd(createdChannels, i, results)
     /\ IF k = 0
        THEN /\ reply' = Upd(reply, i, ReportReply(results))
             /\ pc' = Upd(pc, i, "done")
             /\ calls' = log
             /\ UNCHANGED idx
        ELSE /\ pc' = Upd(pc, i, "pass2")
             /\ idx' = Upd(idx, i, k)
             /\ calls' = Append(log, channelCall(i, chs[k], map))
             /\ UNCHANGED reply

\* The first loop from position from on: issue the create call of the next
\* category, or go on to the second loop when there is none left.
EnterPass1(i, chs, map, from, log) ==
  LET k == nextCategory(chs, from)
  IN /\ categoryMap' = Upd(categoryMap, i, map)
     /\ IF k = 0
        THEN EnterPass2(i, chs, map, 0, <<>>, log)
        ELSE /\ pc' = Upd(pc, i, "pass1")
             /\ idx' = Upd(idx, i, k)
             /\ calls' = Append(log, categoryCall(i, chs[k]))
             /\ UNCHANGED <<reply, createdChannels>>

\* if (dryrun) return the preview; without the return, the loops would run.
PreviewOrExecuteNoReturn(i, chs) == EnterPass1(i, chs, <<>>, 0, calls)

\* if (dryrun) { ... return interaction.editReply(preview) }, else the loops
\* start with an empty categoryMap.
PreviewOrExecute(i, chs) ==
  IF dryrun[i]
  THEN /\ reply' = Upd(reply, i, PreviewReply(chs))
       /\ pc' = Upd(pc, i, "done")
       /\ UNCHANGED <<idx, categoryMap, createdChannels, calls>>
  ELSE EnterPass1(i, chs, <<>>, 0, calls)

\* The handler from the return of callOpenRouter to its next suspension
\* point: extraction, parsing, normalization, then the preview or the first
\* create call.
HandleOutput(i, text) ==
  LET parsed == JSONparse(jsonTextOf(text))
  IN /\ modelOutput' = Upd(modelOutput, i, text)
     /\ IF parsed.kind = "error"
        THEN /\ Fail(i, "SyntaxError")
             /\ UNCHANGED <<channels, idx, categoryMap, createdChannels, calls>>
        ELSE IF parsed.kind = "value" \/ normalizeThrows(parsed.items)
        THEN /\ Fail(i, "TypeError")
             /\ UNCHANGED <<channels, idx, categoryMap, createdChannels, calls>>
        ELSE LET chs == normalize(parsed.items)
             IN /\ channels' = Upd(channels, i, chs)
                /\ PreviewOrExecute(i, chs)

\* An interaction that is not the createchannels chat command: the handler
\* returns at once.
Ignore(i) ==
  /\ i \in active
  /\ pc[i] = "idle"
  /\ pc' = Upd(pc, i, "ignored")
  /\ UNCHANGED <<active, dryrun, attempt, requests, failures, lastResponse,
                 modelOutput, channels, idx,
                 categoryMap, createdChannels, reply, calls, nextId, sanVars>>

\* A createchannels interaction arrives: the handler calls deferReply.
Dispatch(i) ==
  /\ i \in active
  /\ pc[i] = "idle"
  /\ pc' = Upd(pc, i, "defer")
  /\ UNCHANGED <<active, dryrun, attempt, requests, failures, lastResponse,
                 modelOutput, channels, idx,
                 categoryMap, createdChannels, reply, calls, nextId, sanVars>>

\* deferReply rejects: the handler's promise rejects outside its try block.
DeferFails(i) ==
  /\ pc[i] = "defer"
  /\ pc' = Upd(pc, i, "crashed")
  /\ UNCHANGED <<active, dryrun, attempt, requests, failures, lastResponse,
                 modelOutput, channels, idx,
                 categoryMap, createdChannels, reply, calls, nextId, sanVars>>

\* deferReply resolves: the options are read and callOpenRouter issues its
\* first request.
DeferReturns(i) ==
  /\ pc[i] = "defer"
  /\ \E opt \in DryrunOptions : dryrun' = Upd(dryrun, i, toBoolean(opt))
  /\ attempt' = Upd(attempt, i, 0)
  /\ requests' = Upd(requests, i, 1)
  /\ pc' = Upd(pc, i, "request")
  /\ UNCHANGED <<active, failures, lastResponse, modelOutput, channels, idx, categoryMap, createdChannels,
                 reply, calls, nextId, sanVars>>

\* axios.post rejects, or the body has no choices array: the catch block of
\* callOpenRouter logs the attempt and starts the one-second timer.
CompletionFails(i) ==
  /\ pc[i] = "request"
  /\ \E r \in FailedResponses : lastResponse' = Upd(lastResponse, i, r)
  /\ failures' = Upd(failures, i, failures[i] + 1)
  /\ pc' = Upd(pc, i, "backoff")
  /\ UNCHANGED <<active, dryrun, attempt, requests, modelOutput, channels, idx,
                 categoryMap, createdChannels, reply, calls, nextId, sanVars>>

\* A faulty client that falls out of its loop without throwing: the handler
\* then fails on the undefined model output instead.
BackoffElapsesNoThrow(i) ==
  /\ pc[i] = "backoff"
  /\ attempt' = Upd(attempt, i, attempt[i] + 1)
  /\ IF attempt[i] + 1 < MaxAttempts
     THEN /\ requests' = Upd(requests, i, requests[i] + 1)
          /\ pc' = Upd(pc, i, "request")
          /\ UNCHANGED reply
     ELSE /\ Fail(i, "TypeError")
          /\ UNCHANGED requests
  /\ UNCHANGED <<active, dryrun, failures, lastResponse, modelOutput, channels, idx,
                 categoryMap,
                 createdChannels, calls, nextId, sanVars>>

\* The timer fires: i++, then either the next request or the throw after
\* the loop, which the handler's catch block turns into the failure reply.
BackoffElapses(i) ==
  /\ pc[i] = "backoff"
  /\ attempt' = Upd(attempt, i, attempt[i] + 1)
  /\ IF attempt[i] + 1 < MaxAttempts
     THEN /\ requests' = Upd(requests, i, requests[i] + 1)
          /\ pc' = Upd(pc, i, "request")
          /\ UNCHANGED reply
     ELSE /\ Fail(i, Unreachable)
          /\ UNCHANGED requests
  /\ UNCHANGED <<active, dryrun, failures, lastResponse, modelOutput, channels, idx,
                 categoryMap,
                 createdChannels, calls, nextId, sanVars>>

\* The texts the endpoint answers with. While two interactions are in
\* flight they come from the smaller set, which keeps the product of the two
\* runs explorable.
Answers == IF active = {1} THEN ModelOutputs ELSE TwoOutputs

\* axios.post resolves with a usable body: callOpenRouter returns the text
\* or the sentinel, and the handler runs on to its next suspension point.
CompletionReturns(i) ==
  /\ pc[i] = "request"
  /\ \E r \in Responses \ FailedResponses :
       /\ lastResponse' = Upd(lastResponse, i, r)
       /\ \E text \in (IF r = "content" THEN Answers ELSE {Sentinel}) :
            HandleOutput(i, text)
  /\ UNCHANGED <<active, dryrun, attempt, requests, failures, nextId, sanVars>>

\* The position in the log of the pending call of invocation i.
pendingIndex(i) ==
  CHOOSE k \in 1..Len(calls) : calls[k].inv = i /\ calls[k].status = "pending"

\* The log with call k settled: its promise resolved with a channel that
\* has identifier id, or rejected.
SettleAt(log, k, status, id) ==
  [log EXCEPT ![k] = [@ EXCEPT !.status = status, !.id = id]]

\* guild.channels.create of a category resolves: the identifier is recorded
\* and the first loop goes on.
CategoryCreated(i) ==
  /\ pc[i] = "pass1"
  /\ LET ch == channels[i][idx[i]]
         log == SettleAt(calls, pendingIndex(i), "ok", nextId)
     IN EnterPass1(i, channels[i], mapPut(categoryMap[i], ch.name, nextId), idx[i], log)
  /\ nextId' = nextId + 1
  /\ UNCHANGED <<active, dryrun, attempt, requests, failures, lastResponse,
                 modelOutput, channels, sanVars>>

\* A first loop that catches the rejection per item and goes on.
CategoryFailsContinues(i) ==
  /\ pc[i] = "pass1"
  /\ EnterPass1(i, channels[i], categoryMap[i], idx[i],
                SettleAt(calls, pendingIndex(i), "fail", 0))
  /\ UNCHANGED <<active, dryrun, attempt, requests, failures, lastResponse,
                 modelOutput, channels, nextId, sanVars>>

\* guild.channels.create of a category rejects: the exception leaves both
\* loops and reaches the handler's catch block.
CategoryFails(i) ==
  /\ pc[i] = "pass1"
  /\ calls' = SettleAt(calls, pendingIndex(i), "fail", 0)
  /\ Fail(i, DirectoryError)
  /\ UNCHANGED <<active, dryrun, attempt, requests, failures, lastResponse,
                 modelOutput, channels, idx,
                 categoryMap, createdChannels, nextId, sanVars>>

\* guild.channels.create of a channel resolves: a success entry is pushed
\* and the second loop goes on.
ChannelCreated(i) ==
  /\ pc[i] = "pass2"
  /\ LET ch == channels[i][idx[i]]
         k == pendingIndex(i)
         log == SettleAt(calls, k, "ok", nextId)
         entry == [name |-> calls[k].name, type |-> ch.type]
     IN EnterPass2(i, channels[i], categoryMap[i], idx[i],
                   Append(createdChannels[i], entry), log)
  /\ nextId' = nextId + 1
  /\ UNCHANGED <<active, dryrun, attempt, requests, failures, lastResponse,
                 modelOutput, channels,
                 categoryMap, sanVars>>

\* A second loop without its try/catch: the rejection ends the command.
ChannelFailsAborts(i) ==
  /\ pc[i] = "pass2"
  /\ calls' = SettleAt(calls, pendingIndex(i), "fail", 0)
  /\ Fail(i, DirectoryError)
  /\ UNCHANGED <<active, dryrun, attempt, requests, failures, lastResponse,
                 modelOutput, channels, idx,
                 categoryMap, createdChannels, nextId, sanVars>>

\* guild.channels.create of a channel rejects: an error entry is pushed and
\* the second loop goes on.
ChannelFails(i) ==
  /\ pc[i] = "pass2"
  /\ LET ch == channels[i][idx[i]]
         log == SettleAt(calls, pendingIndex(i), "fail", 0)
         entry == [name |-> ch.name, error |-> DirectoryError]
     IN EnterPass2(i, channels[i], categoryMap[i], idx[i],
                   Append(createdChannels[i], entry), log)
  /\ UNCHANGED <<active, dryrun, attempt, requests, failures, lastResponse,
                 modelOutput, channels,
                 categoryMap, nextId, sanVars>>

\* The steps of invocation i after the interaction was dispatched.
Step(i) ==
  \/ DeferFails(i)
  \/ DeferReturns(i)
  \/ CompletionFails(i)
  \/ BackoffElapses(i)
  \/ CompletionReturns(i)
  \/ CategoryCreated(i)
  \/ CategoryFails(i)
  \/ ChannelCreated(i)
  \/ ChannelFails(i)

Next ==
  \/ \E i \in Invocations : Ignore(i)
  \/ \E i \in Invocations : Dispatch(i)
  \/ \E i \in Invocations : DeferFails(i)
  \/ \E i \in Invocations : DeferReturns(i)
  \/ \E i \in Invocations : CompletionFails(i)
  \/ \E i \in Invocations : BackoffElapses(i)
  \/ \E i \in Invocations : CompletionReturns(i)
  \/ \E i \in Invocations : CategoryCreated(i)
  \/ \E i \in Invocations : CategoryFails(i)
  \/ \E i \in Invocations : ChannelCreated(i)
  \/ \E i \in Invocations : ChannelFails(i)

\* One interaction is delivered.
Init == InvInit /\ SanIdle /\ active = {1}

Spec == Init /\ [][Next]_vars

\* Two interactions are delivered; their handlers interleave at every await.
InitTwo == InvInit /\ SanIdle /\ active = Invocations

SpecTwo == InitTwo /\ [][Next]_vars

\* The event loop runs every continuation whose promise has settled, and
\* every awaited call (deferReply, axios.post, the timer, channels.create)
\* settles.
FairSpec == Spec /\ \A i \in Invocations : WF_vars(Step(i))


\* ------------------------------------------------------------ observations
\* The channel objects extraction finds in the model answer of invocation i.
rawItems(i) == JSONparse(jsonTextOf(modelOutput[i])).items

IsCategoryCall(c) == c.type = "GuildCategory"

\* The identifiers the directory has handed out so far.
Ids == 1..(nextId - 1)

\* The create calls of invocation i for non-category channels, in issue order.
channelCallsOf(i) ==
  LET mine(c) == c.inv = i /\ ~IsCategoryCall(c)
  IN SelectSeq(calls, mine)

\* The positions of the non-category channels of invocation i, in input order.
channelPositions(i) ==
  LET plain(k) == channels[i][k].type # "category"
  IN SelectSeq([k \in 1..Len(channels[i]) |-> k], plain)

categoryPositions(i) == {k \in 1..Len(channels[i]) : channels[i][k].type = "category"}

failedCalls(i) == {c \in 1..Len(calls) : calls[c].inv = i /\ calls[c].status = "fail"}

errorEntries(i) ==
  {k \in 1..Len(createdChannels[i]) : "error" \in DOMAIN createdChannels[i][k]}

NoDoubleHyphen(s) == \A k \in 1..(Len(s) - 1) : ~(s[k] = "-" /\ s[k + 1] = "-")

\* Three requests went out and the catch block handled each of them.
AllFailed(i) == requests[i] = 3 /\ failures[i] = 3

\* ------------------------------------------------------------ properties

\* C1: in a non-dry-run invocation every create-category call of the batch
\* is issued and completed before the first create call for a non-category
\* channel is issued, and a channel call that carries a parent identifier
\* carries one that an earlier, completed category call returned.
C1_CategoriesFirst ==
  \A b \in 1..Len(calls) :
    ~IsCategoryCall(calls[b]) =>
      LET i == calls[b].inv
      IN /\ ~dryrun[i]
         /\ \A c \in 1..Len(calls) :
              (calls[c].inv = i /\ IsCategoryCall(calls[c]))
                => (c < b /\ calls[c].status # "pending")
         /\ Cardinality({c \in 1..b : calls[c].inv = i /\ IsCategoryCall(calls[c])})
              = Cardinality(categoryPositions(i))
         /\ calls[b].parent \in Ids =>
              \E c \in 1..(b - 1) :
                /\ IsCategoryCall(calls[c])
                /\ calls[c].status = "ok"
                /\ calls[c].id = calls[b].parent

\* A channel that precedes two categories in the answer has been created
\* after both of them.
C1_Witness ==
  \E i \in Invocations :
    /\ Len(channels[i]) = 3
    /\ channels[i][1].type # "category"
    /\ channels[i][2].type = "category"
    /\ channels[i][3].type = "category"
    /\ \E b \in 1..Len(calls) :
         calls[b].inv = i /\ ~IsCategoryCall(calls[b]) /\ calls[b].status = "ok"

\* C2: with a category whose raw name is "Team Alpha" and a non-category
\* channel whose parent is "Team Alpha", the create call of the child
\* carries the identifier that the create call of that category returned.
C2_ParentResolved ==
  \A i \in Invocations :
    ( /\ pc[i] = "pass2"
      /\ rawItems(i)[idx[i]].parent = TeamAlpha
      /\ \E k \in 1..Len(rawItems(i)) :
           rawItems(i)[k].name = TeamAlpha /\ rawItems(i)[k].type = "category" )
    => \E c \in 1..Len(calls) :
         /\ calls[c].inv = i
         /\ IsCategoryCall(calls[c])
         /\ calls[c].name = TeamAlphaKey
         /\ calls[c].status = "ok"
         /\ calls[pendingIndex(i)].parent = calls[c].id

\* C3: when exactly one create call of an executed batch of N channels
\* fails, the outcome is a report with N results, exactly one of them an
\* error and the other N - 1 created.
C3_PartialFailure ==
  \A i \in Invocations :
    (pc[i] = "done" /\ ~dryrun[i] /\ Cardinality(failedCalls(i)) = 1)
    => /\ reply[i].kind = "report"
       /\ Len(createdChannels[i]) = Len(channels[i])
       /\ Cardinality(errorEntries(i)) = 1

\* C4: one call of the completion client issues at most 3 requests; every
\* request but the latest one has failed, so a request follows only a failed
\* one and none follows a success; the client returns on the first success;
\* it fails only after exactly 3 failed requests.
C4_AtMostThreeRequests ==
  \A i \in Invocations :
    LET pending == IF pc[i] = "request" THEN 1 ELSE 0
        succeeded == IF lastResponse[i] \in Responses \ FailedResponses THEN 1 ELSE 0
    IN /\ requests[i] <= 3
       /\ requests[i] = failures[i] + pending + succeeded
       /\ pending + succeeded <= 1
       /\ reply[i] = FailedReply(Unreachable) => AllFailed(i)
       /\ (pc[i] \in {"pass1", "pass2", "done"} /\ reply[i] # FailedReply(Unreachable))
            => succeeded = 1

\* The client returned a text on its third request.
C4_Witness ==
  \E i \in Invocations :
    /\ requests[i] = 3
    /\ failures[i] = 2
    /\ lastResponse[i] = "content"
    /\ reply[i].kind = "report"

\* C5: after 3 failed completion attempts the invocation issues no create
\* call and its reply is the failure reply with the unavailability message.
C5_UnavailableNoCalls ==
  \A i \in Invocations :
    AllFailed(i) =>
      /\ \A c \in 1..Len(calls) : calls[c].inv # i
      /\ pc[i] \in {"backoff", "done"}
      /\ pc[i] = "done" => reply[i] = FailedReply(Unreachable)

\* Three failed attempts, the last timer has fired and the reply is out.
C5_Witness ==
  \E i \in Invocations :
    AllFailed(i) /\ pc[i] = "done" /\ reply[i].msg = Unreachable

\* C6: a dry-run invocation issues no create call, builds no category map
\* and no result list; the only thing it sends is the preview (or, when the
\* answer cannot be used, the failure reply).
C6_DryRunNoCalls ==
  \A i \in Invocations :
    dryrun[i] =>
      /\ \A c \in 1..Len(calls) : calls[c].inv # i
      /\ categoryMap[i] = <<>>
      /\ createdChannels[i] = <<>>
      /\ pc[i] \in {"request", "backoff", "done"}
      /\ pc[i] = "done" => reply[i].kind \in {"preview", "failed"}
      /\ (pc[i] = "done" /\ Len(channels[i]) > 0) => reply[i] = PreviewReply(channels[i])

\* A dry run over a batch with a category and a channel under it ended with
\* the preview.
C6_Witness ==
  \E i \in Invocations :
    /\ dryrun[i]
    /\ pc[i] = "done"
    /\ reply[i].kind = "preview"
    /\ Len(channels[i]) >= 2
    /\ channels[i][1].type = "category"
    /\ channels[i][2].type # "category"
    /\ channels[i][2].parent # Falsy

\* C7: every invocation that was deferred (its first completion request is
\* out) eventually ends with a reply: the preview, the report or the
\* failure message.
C7_AlwaysReplies ==
  \A i \in Invocations :
    (pc[i] = "request") ~>
      (pc[i] = "done" /\ reply[i].kind \in {"preview", "report", "failed"})

\* A report with a warning line, sent after two failed completion attempts.
C7_Witness ==
  \E i \in Invocations :
    /\ pc[i] = "done"
    /\ reply[i].kind = "report"
    /\ failures[i] = 2
    /\ \E k \in 1..Len(reply[i].lines) : reply[i].lines[k].mark = "warning"
    /\ \E k \in 1..Len(reply[i].lines) : reply[i].lines[k].mark = "ok"

\* C8: the output of sanitizeName has only characters of [a-z0-9-], no two
\* consecutive hyphens and at most 100 characters.
C8_SanitizeOutput ==
  sanDone =>
    /\ \A k \in 1..Len(sanOut) : sanOut[k] \in LegalChars
    /\ NoDoubleHyphen(sanOut)
    /\ Len(sanOut) <= 100

\* An input longer than 100 characters with an upper-case letter and an
\* illegal character next to a hyphen was cut to exactly 100 characters.
C8_Witness ==
  /\ sanDone
  /\ Len(sanIn) > 100
  /\ Len(sanOut) = 100
  /\ \E k \in 1..Len(sanIn) : sanIn[k] = "B"
  /\ \E k \in 1..(Len(sanIn) - 1) : sanIn[k] = "!" /\ sanIn[k + 1] = "-"

\* C9: every normalized channel has a name of 1 to 100 characters over
\* [a-z0-9-] with no leading hyphen, no trailing hyphen and no two
\* consecutive hyphens.
C9_NormalizedNames ==
  \A i \in Invocations :
    \A k \in 1..Len(channels[i]) :
      LET n == channels[i][k].name
      IN /\ Len(n) >= 1
         /\ Len(n) <= 100
         /\ \A j \in 1..Len(n) : n[j] \in LegalChars
         /\ NoDoubleHyphen(n)
         /\ n[1] # "-"
         /\ n[Len(n)] # "-"

\* The parent reference of ch is not a key of the category map.
Unmatched(i, ch) == ch.parent # Falsy /\ ch.parent \notin DOMAIN categoryMap[i]

\* C10: the create calls for non-category channels follow the input order;
\* a channel whose parent reference matches no category of the invocation
\* gets its create call all the same, and that call carries no identifier
\* as parent; when the report is sent every non-category channel has had
\* its call.
C10_UnmatchedParent ==
  \A i \in Invocations :
    LET pos == channelPositions(i)
        cs == channelCallsOf(i)
    IN /\ Len(cs) <= Len(pos)
       /\ \A j \in 1..Len(cs) :
            LET ch == channels[i][pos[j]]
            IN /\ cs[j].name = ch.name
               /\ Unmatched(i, ch) => cs[j].parent \notin Ids
       /\ (pc[i] = "done" /\ reply[i].kind = "report") => Len(cs) = Len(pos)

\* Next to a created category, a channel with an unmatched parent reference
\* was created without a parent.
C10_Witness ==
  \E i \in Invocations :
    /\ DOMAIN categoryMap[i] # {}
    /\ \E j \in 1..Len(channelCallsOf(i)) :
         /\ Unmatched(i, channels[i][channelPositions(i)[j]])
         /\ channelCallsOf(i)[j].status = "ok"
         /\ channelCallsOf(i)[j].parent = Undefined

\* ------------------------------------------------------------ extraction and preview

\* The answer of invocation i has arrived.
Answered(i) == modelOutput[i] # <<>>

\* The text has an opening bracket with a closing bracket somewhere after it.
HasBracketPair(text) ==
  \E a \in 1..Len(text) : \E b \in (a + 1)..Len(text) :
    text[a].tok = "[" /\ text[b].tok = "]"

\* The well-formed arrays of the text: an opening bracket, objects only, a
\* closing bracket.
WellFormedArrays(text) ==
  {p \in (1..Len(text)) \X (1..Len(text)) :
     /\ p[1] < p[2]
     /\ text[p[1]].tok = "["
     /\ text[p[2]].tok = "]"
     /\ \A k \in (p[1] + 1)..(p[2] - 1) : text[k].tok = "object"}

\* The objects of the array that spans positions p[1]..p[2] of the text.
ElementsOf(text, p) == [k \in 1..(p[2] - p[1] - 1) |-> text[p[1] + k].spec]

\* No bracket of the text lies outside positions p[1]..p[2].
BracketFreeOutside(text, p) ==
  \A k \in 1..Len(text) :
    text[k].tok \in {"[", "]"} => (p[1] <= k /\ k <= p[2])

\* C11: when the model answer has no bracket pair the invocation ends with
\* a failure reply, has no normalized channels and issues no create call.
C11_NoBracketsFails ==
  \A i \in Invocations :
    (Answered(i) /\ ~HasBracketPair(modelOutput[i]))
    => /\ pc[i] = "done"
       /\ reply[i].kind = "failed"
       /\ channels[i] = <<>>
       /\ \A c \in 1..Len(calls) : calls[c].inv # i

\* A lone JSON object (valid JSON, no bracket) ended in the TypeError reply
\* of a non-dry run.
C11_Witness ==
  \E i \in Invocations :
    /\ ~dryrun[i]
    /\ Len(modelOutput[i]) = 1
    /\ modelOutput[i][1].tok = "object"
    /\ reply[i] = FailedReply("TypeError")

\* C12 as stated: when the model answer contains exactly one well-formed
\* bracketed array, whatever surrounds it, extraction yields exactly the
\* elements of that array, in order.
C12_ExtractsTheArray ==
  \A i \in Invocations :
    (Answered(i) /\ Cardinality(WellFormedArrays(modelOutput[i])) = 1)
    => LET p == CHOOSE q \in WellFormedArrays(modelOutput[i]) : TRUE
       IN /\ JSONparse(jsonTextOf(modelOutput[i])).kind = "array"
          /\ rawItems(i) = ElementsOf(modelOutput[i], p)

\* C12 amended: when the model answer contains exactly one well-formed
\* bracketed array and no bracket outside it, extraction yields exactly the
\* elements of that array, in order, and planning sees that many channels.
C12_ExtractsTheArrayInPlainProse ==
  \A i \in Invocations :
    \A p \in WellFormedArrays(modelOutput[i]) :
      (Answered(i) /\ BracketFreeOutside(modelOutput[i], p))
      => /\ JSONparse(jsonTextOf(modelOutput[i])).kind = "array"
         /\ rawItems(i) = ElementsOf(modelOutput[i], p)
         /\ reply[i].kind # "failed" => Len(channels[i]) = p[2] - p[1] - 1
         /\ reply[i].kind = "failed" => reply[i].msg # "SyntaxError"

\* An array of two objects between two stretches of prose was extracted and
\* planned.
C12_Witness ==
  \E i \in Invocations :
    /\ Len(modelOutput[i]) = 6
    /\ modelOutput[i][1].tok = "prose"
    /\ modelOutput[i][6].tok = "prose"
    /\ Len(channels[i]) = 2
    /\ channels[i][1].name # channels[i][2].name

\* C13: the dry-run preview has exactly one line per extracted object,
\* categories included, and line k shows object k: its normalized name, its
\* type in upper case and its parent reference.
C13_PreviewOrder ==
  \A i \in Invocations :
    (dryrun[i] /\ reply[i].kind = "preview")
    => /\ Len(reply[i].lines) = Len(rawItems(i))
       /\ \A k \in 1..Len(reply[i].lines) :
            LET line == reply[i].lines[k]
                raw == rawItems(i)[k]
            IN /\ line.name = channels[i][k].name
               /\ raw.name # Falsy => line.name = sanitizeName(raw.name)
               /\ raw.name = Falsy => line.name = fallbackName(k)
               /\ line.type = "CATEGORY" <=> raw.type = "category"
               /\ line.type = "VOICE" <=> raw.type = "voice"
               /\ line.parent = raw.parent

\* A preview of three lines: a channel, then a category, then a voice channel.
C13_Witness ==
  \E i \in Invocations :
    /\ dryrun[i]
    /\ reply[i].kind = "preview"
    /\ Len(reply[i].lines) = 3
    /\ reply[i].lines[1].type = "TEXT"
    /\ reply[i].lines[2].type = "CATEGORY"
    /\ reply[i].lines[3].type = "VOICE"

\* ------------------------------------------------------------ execution

\* The create calls of invocation i, in issue order.
callsOf(i) ==
  LET mine(c) == c.inv = i
  IN SelectSeq(calls, mine)

\* The create-category calls of invocation i, in issue order.
categoryCallsOf(i) ==
  LET mine(c) == c.inv = i /\ IsCategoryCall(c)
  IN SelectSeq(calls, mine)

\* The positions of the objects of invocation i whose raw type is exactly
\* "category", in input order.
rawCategoryPositions(i) ==
  LET cat(k) == rawItems(i)[k].type = "category"
  IN SelectSeq([k \in 1..Len(rawItems(i)) |-> k], cat)

\* The positions of the other objects, in input order.
rawChannelPositions(i) ==
  LET plain(k) == rawItems(i)[k].type # "category"
  IN SelectSeq([k \in 1..Len(rawItems(i)) |-> k], plain)

\* C14: the create calls for the non-category channels are issued one per
\* channel in input order; every settled call has exactly one result entry,
\* an error entry exactly when the call failed, so no call is issued twice;
\* when no category call failed, the run ends with the report after every
\* non-category channel had its call, whichever of these calls failed.
C14_OneCallPerChannel ==
  \A i \in Invocations :
    LET pos == channelPositions(i)
        cs == channelCallsOf(i)
        settled == {j \in 1..Len(cs) : cs[j].status # "pending"}
    IN /\ Len(cs) <= Len(pos)
       /\ Len(callsOf(i)) <= Len(channels[i])
       /\ \A j \in 1..Len(cs) :
            /\ cs[j].name = channels[i][pos[j]].name
            /\ cs[j].type = "GuildVoice" <=> channels[i][pos[j]].type = "voice"
       /\ Len(createdChannels[i]) = Cardinality(settled)
       /\ \A j \in 1..Len(createdChannels[i]) :
            ("error" \in DOMAIN createdChannels[i][j]) <=> cs[j].status = "fail"
       /\ ( /\ pc[i] = "done"
            /\ Len(callsOf(i)) > 0
            /\ \A j \in 1..Len(categoryCallsOf(i)) : categoryCallsOf(i)[j].status = "ok" )
          => (reply[i].kind = "report" /\ Len(cs) = Len(pos))

\* After a created category, the first of two channel calls failed and
\* the second was still issued and succeeded.
C14_Witness ==
  \E i \in Invocations :
    /\ Len(categoryCallsOf(i)) = 1
    /\ Len(channelCallsOf(i)) = 2
    /\ channelCallsOf(i)[1].status = "fail"
    /\ channelCallsOf(i)[2].status = "ok"
    /\ reply[i].kind = "report"

\* C15: a failed create-category call is the last call of its invocation;
\* the calls before it are category calls that succeeded and keep their
\* identifiers; no non-category call was issued, there is no result list
\* and the reply is the failure message.
C15_CategoryFailureAborts ==
  \A i \in Invocations :
    \A c \in 1..Len(calls) :
      (calls[c].inv = i /\ IsCategoryCall(calls[c]) /\ calls[c].status = "fail")
      => /\ \A d \in (c + 1)..Len(calls) : calls[d].inv # i
         /\ \A d \in 1..(c - 1) :
              calls[d].inv = i =>
                /\ IsCategoryCall(calls[d])
                /\ calls[d].status = "ok"
                /\ calls[d].id \in Ids
                /\ calls[d].name \in DOMAIN categoryMap[i]
         /\ channelCallsOf(i) = <<>>
         /\ createdChannels[i] = <<>>
         /\ pc[i] = "done"
         /\ reply[i] = FailedReply(DirectoryError)

\* The second of two categories failed after the first was created, and the
\* channel of the batch got no call.
C15_Witness ==
  \E i \in Invocations :
    /\ Len(callsOf(i)) = 2
    /\ callsOf(i)[1].status = "ok"
    /\ callsOf(i)[2].status = "fail"
    /\ IsCategoryCall(callsOf(i)[2])
    /\ Len(channels[i]) = 3
    /\ channels[i][3].type # "category"

\* C16: the normalized type is voice exactly for the raw type "voice",
\* category exactly for "category" and text for everything else; the
\* create-category calls are those of the objects whose raw type is exactly
\* "category", in order, and only their names are keys of the category map;
\* every other object gets a text or voice call.
C16_ExactTypes ==
  \A i \in Invocations :
    channels[i] # <<>> =>
      LET raw == rawItems(i)
          cats == categoryCallsOf(i)
          cs == channelCallsOf(i)
      IN /\ Len(channels[i]) = Len(raw)
         /\ \A k \in 1..Len(raw) :
              /\ channels[i][k].type = "voice" <=> raw[k].type = "voice"
              /\ channels[i][k].type = "category" <=> raw[k].type = "category"
              /\ channels[i][k].type = "text" <=> raw[k].type \notin {"voice", "category"}
         /\ Len(cats) <= Len(rawCategoryPositions(i))
         /\ \A j \in 1..Len(cats) :
              cats[j].name = channels[i][rawCategoryPositions(i)[j]].name
         /\ Len(cs) <= Len(rawChannelPositions(i))
         /\ \A j \in 1..Len(cs) :
              /\ cs[j].name = channels[i][rawChannelPositions(i)[j]].name
              /\ cs[j].type \in {"GuildText", "GuildVoice"}
         /\ DOMAIN categoryMap[i] \subseteq {cats[j].name : j \in 1..Len(cats)}

\* An object of raw type "Category" was created as a text channel next to a
\* real category.
C16_Witness ==
  \E i \in Invocations :
    /\ DOMAIN categoryMap[i] # {}
    /\ \E j \in 1..Len(channelCallsOf(i)) :
         /\ rawItems(i)[rawChannelPositions(i)[j]].type = "Category"
         /\ channelCallsOf(i)[j].type = "GuildText"
         /\ channelCallsOf(i)[j].status = "ok"

\* C17: the options of a create call for a voice channel carry no topic.
C17_VoiceWithoutTopic ==
  \A c \in 1..Len(calls) :
    calls[c].type = "GuildVoice" => calls[c].topic \in {NoTopic, NullTopic}

\* ------------------------------------------------------------ interleaving

\* C18: with two invocations interleaving at their awaits, a parent
\* identifier carried by a channel create call was returned by an earlier
\* create-category call of the same invocation, and every identifier in an
\* invocation's map comes from one of its own category calls.
C18_NoSharedState ==
  /\ \A c \in 1..Len(calls) :
       (~IsCategoryCall(calls[c]) /\ calls[c].parent \in Ids)
       => \E d \in 1..(c - 1) :
            /\ calls[d].inv = calls[c].inv
            /\ IsCategoryCall(calls[d])
            /\ calls[d].status = "ok"
            /\ calls[d].id = calls[c].parent
  /\ \A i \in Invocations :
       \A n \in DOMAIN categoryMap[i] :
         \E d \in 1..Len(calls) :
           /\ calls[d].inv = i
           /\ IsCategoryCall(calls[d])
           /\ calls[d].name = n
           /\ calls[d].id = categoryMap[i][n]

\* Both invocations created a category of the same name, one right after
\* the other, and then each created its channel under its own category.
C18_Witness ==
  \E a, b, c, d \in 1..Len(calls) :
    /\ a < b /\ b < c /\ c < d
    /\ calls[a].inv = 1 /\ calls[b].inv = 2
    /\ IsCategoryCall(calls[a]) /\ IsCategoryCall(calls[b])
    /\ calls[a].name = calls[b].name
    /\ calls[c].inv = 2 /\ calls[c].parent = calls[b].id
    /\ calls[d].inv = 1 /\ calls[d].parent = calls[a].id
    /\ calls[a].id \in Ids /\ calls[b].id \in Ids

\* C19: a 2xx response whose first message has no text makes callOpenRouter
\* return the sentinel at once: the attempt is not counted as failed, no
\* request follows it, no timer is started and the client does not throw;
\* the handler goes on with the sentinel as the model output.
C19_NoContentIsSuccess ==
  \A i \in Invocations :
    lastResponse[i] = "nocontent"
    => /\ modelOutput[i] = Sentinel
       /\ requests[i] = failures[i] + 1
       /\ attempt[i] = failures[i]
       /\ pc[i] \notin {"request", "backoff"}
       /\ reply[i] # FailedReply(Unreachable)

\* After one failed attempt the second request was answered without text.
C19_Witness ==
  \E i \in Invocations :
    /\ lastResponse[i] = "nocontent"
    /\ failures[i] = 1
    /\ requests[i] = 2
    /\ modelOutput[i] = Sentinel

\* The positions of the categories of invocation i, in input order.
categoryOrder(i) ==
  LET cat(k) == channels[i][k].type = "category"
  IN SelectSeq([k \in 1..Len(channels[i]) |-> k], cat)

\* The identifier returned by the most recent successful create-category
\* call of invocation i for the given name.
lastCategoryId(i, name) ==
  LET ks == {k \in 1..Len(calls) : /\ calls[k].inv = i
                                   /\ IsCategoryCall(calls[k])
                                   /\ calls[k].status = "ok"
                                   /\ calls[k].name = name}
  IN calls[SetMax(ks)].id

\* C20: every category spec gets its own create call, also when its
\* normalized name was used before; the map holds under each name the
\* identifier of the most recent successful create-category call for that
\* name; a channel whose parent reference is a key of the map is created
\* under that identifier.
C20_LastCategoryWins ==
  \A i \in Invocations :
    LET cats == categoryCallsOf(i)
        pos == categoryOrder(i)
        cs == channelCallsOf(i)
        chp == channelPositions(i)
    IN /\ Len(cats) <= Len(pos)
       /\ \A j \in 1..Len(cats) : cats[j].name = channels[i][pos[j]].name
       /\ (pc[i] = "pass2" \/ reply[i].kind = "report") => Len(cats) = Len(pos)
       /\ DOMAIN categoryMap[i] =
            {cats[j].name : j \in {m \in 1..Len(cats) : cats[m].status = "ok"}}
       /\ \A n \in DOMAIN categoryMap[i] : categoryMap[i][n] = lastCategoryId(i, n)
       /\ \A j \in 1..Len(cs) :
            channels[i][chp[j]].parent \in DOMAIN categoryMap[i]
            => cs[j].parent = lastCategoryId(i, channels[i][chp[j]].parent)

\* Two categories with the same normalized name were both created, and the
\* channel that refers to the name was created under the second one.
C20_Witness ==
  \E i \in Invocations :
    /\ Len(categoryCallsOf(i)) = 2
    /\ categoryCallsOf(i)[1].name = categoryCallsOf(i)[2].name
    /\ rawItems(i)[1].name # rawItems(i)[2].name
    /\ categoryCallsOf(i)[1].status = "ok"
    /\ categoryCallsOf(i)[2].status = "ok"
    /\ \E j \in 1..Len(channelCallsOf(i)) :
         /\ channelCallsOf(i)[j].parent = categoryCallsOf(i)[2].id
         /\ channelCallsOf(i)[j].status = "ok"
====
